---------------------------- MODULE Spec2Model ----------------------------
(* Verification model of chord-singer: the vocal synthesis pipeline         *)
(* (backend/synthesis), the pitch normalizer and the job orchestrator       *)
(* (backend/main.py).  Audio buffers are sequences with one frame per       *)
(* millisecond (frame rate 1000 Hz), the unit of pydub's len(), slicing and *)
(* overlay position.                                                        *)
EXTENDS Integers, Sequences, FiniteSets, TLC

VARIABLES
    arg,     \* inputs of the pure function under check (a record)
    ret      \* [done, val]: whether it has been applied, and its result

fnVars == <<arg, ret>>

\* one run of a synthesizer entry point
VARIABLES
    path,                \* "stable", "sung" or "spoken": the entry point
    chord_timeline,      \* sequence of [start, end], in ticks
    duration,            \* original_audio_duration_sec, in ticks
    bed,                 \* length in ms of the file at original_audio_path, -1 if it cannot be loaded
    sy_pc,               \* "idle", "start", "loop", "returned", "raised"
    sy_err,              \* what made the run raise: "none", "segment", "export"
    seg_i,               \* index of the next segment of the loop
    instrumental_track,
    vocals_track,        \* the vocal canvas
    ref_track,           \* the vocal canvas of the same run with no forced failure
    injected,            \* indices of the segments whose synthesis or effects step was made to fail
    out_file             \* [exists, audio]: the file at output_path

\* calls of VocalSynthesizer._synthesize_single_chord that run at the same
\* time in one working directory
VARIABLES
    call_pc,             \* [Jobs -> "idle", "tts", "load", "exists", "unlink", "returned"]
    call_text,           \* [Jobs -> the chord name the call has to speak]
    temp_chord_wav,      \* the file "temp_chord.wav": [exists, text, writer]
    chord_audio,         \* [Jobs -> the audio the call loaded: [text, writer]]
    call_ret,            \* [Jobs -> the audio the call returned: [text, writer]]
    writers              \* the jobs that have written "temp_chord.wav"

ttsVars == <<call_pc, call_text, temp_chord_wav, chord_audio, call_ret, writers>>

synthVars == <<path, chord_timeline, duration, bed, sy_pc, sy_err, seg_i,
               instrumental_track, vocals_track, ref_track, injected, out_file,
               ttsVars>>

\* the jobs of the HTTP service (backend/main.py)
VARIABLES
    job_pc,              \* [Jobs -> where the request handler of the job stands]
    processing_status,   \* [Jobs -> [status, progress, message]], NoStatus where the key is absent
    processing_results,  \* [Jobs -> the output path recorded for the job, "none" where absent]
    hist,                \* [Jobs -> the statuses written for the job, in order]
    files,               \* [Jobs -> the job's files that exist on disk]
    ps_locals,           \* [Jobs -> the path variables of process_song's frame]
    exc,                 \* [Jobs -> str(e) of the exception in flight, "" if none]
    ps_exit,             \* [Jobs -> how process_song ended: kind, exc, cause, chord_count]
    faults,              \* [Jobs -> the inputs and collaborators that failed for the job]
    response             \* [Jobs -> [code, job_id] of the HTTP response, code 0 before it]

jobVars == <<job_pc, processing_status, processing_results, hist, files,
             ps_locals, exc, ps_exit, faults, response>>

vars == <<fnVars, synthVars, jobVars>>

MaxJobs == 2         \* number of upload requests

Jobs == 1..MaxJobs

NoStatus == [status |-> "none", progress |-> 0, message |-> ""]

Unbound == [processed_audio_path |-> "unbound", instrumental_path |-> "unbound",
            vocals_path |-> "unbound", detected_chords |-> 0]

Running == [kind |-> "running", exc |-> "", cause |-> "", chord_count |-> 0]

NoResponse == [code |-> 0, job_id |-> FALSE]

IdleJobs ==
    /\ job_pc = [j \in Jobs |-> "none"]
    /\ processing_status = [j \in Jobs |-> NoStatus]
    /\ processing_results = [j \in Jobs |-> "none"]
    /\ hist = [j \in Jobs |-> <<>>]
    /\ files = [j \in Jobs |-> {}]
    /\ ps_locals = [j \in Jobs |-> Unbound]
    /\ exc = [j \in Jobs |-> ""]
    /\ ps_exit = [j \in Jobs |-> Running]
    /\ faults = [j \in Jobs |-> {}]
    /\ response = [j \in Jobs |-> NoResponse]

NoFile == [exists |-> FALSE, audio |-> <<>>]

IdleFn == arg = [fn |-> "none"] /\ ret = [done |-> FALSE, val |-> <<>>]

NoAudio == [text |-> "", writer |-> 0]

\* no file "temp_chord.wav" in the working directory
NoTempFile == [exists |-> FALSE, text |-> "", writer |-> 0]

IdleTts ==
    /\ call_pc = [j \in Jobs |-> "idle"]
    /\ call_text = [j \in Jobs |-> ""]
    /\ temp_chord_wav = NoTempFile
    /\ chord_audio = [j \in Jobs |-> NoAudio]
    /\ call_ret = [j \in Jobs |-> NoAudio]
    /\ writers = {}

IdleSynth ==
    /\ IdleTts
    /\ path = "none" /\ chord_timeline = <<>> /\ duration = 0 /\ bed = -1
    /\ sy_pc = "idle" /\ sy_err = "none" /\ seg_i = 1
    /\ instrumental_track = <<>> /\ vocals_track = <<>> /\ ref_track = <<>>
    /\ injected = {} /\ out_file = NoFile

Pending == [done |-> FALSE, val |-> <<>>]
Returned(v) == [done |-> TRUE, val |-> v]

Min(a, b) == IF a < b THEN a ELSE b
Max(a, b) == IF a > b THEN a ELSE b

-----------------------------------------------------------------------------
(* Bounds of the model *)

MaxLen == 3          \* longest buffer handed to the duration fitter
MaxTarget == 4       \* largest target duration handed to the duration fitter

SampleSet == {0, 1}  \* sample values of the enumerated buffers (0 is silence)

-----------------------------------------------------------------------------
(* pydub AudioSegment operations used by the synthesizers *)

\* AudioSegment.silent(duration=n)
Silent(n) == [i \in 1..n |-> 0]

\* audio[:end_ms]: pydub clamps the end to len(audio) and counts a negative
\* end from the end of the segment (_parse_position)
SliceTo(audio, end_ms) ==
    LET e0 == Min(end_ms, Len(audio))
        e  == IF e0 < 0 THEN Max(Len(audio) + e0, 0) ELSE e0
    IN  SubSeq(audio, 1, e)

\* a variant that never trims
AdjustAudioDurationNoTrim(audio, target_duration_ms) ==
    IF Len(audio) >= target_duration_ms
    THEN audio
    ELSE audio \o Silent(target_duration_ms - Len(audio))

\* _adjust_audio_duration (the same code in both synthesizers)
AdjustAudioDuration(audio, target_duration_ms) ==
    LET current_duration_ms == Len(audio)
    IN  IF current_duration_ms = target_duration_ms
        THEN audio
        ELSE IF current_duration_ms > target_duration_ms
             THEN SliceTo(audio, target_duration_ms)
             ELSE audio \o Silent(target_duration_ms - current_duration_ms)

-----------------------------------------------------------------------------
(* SpecFit: the duration fitter applied to every small buffer and target *)

Buffers(n) == UNION {[1..k -> SampleSet] : k \in 0..n}

InitFit ==
    /\ IdleSynth
    /\ IdleJobs
    /\ arg \in [audio : Buffers(MaxLen), target : 0..MaxTarget]
    /\ ret = Pending

Fit ==
    /\ ~ret.done
    /\ ret' = Returned(AdjustAudioDuration(arg.audio, arg.target))
    /\ UNCHANGED <<arg, synthVars, jobVars>>

NextFit == Fit

SpecFit == InitFit /\ [][NextFit]_vars

\* C1: the duration fitter returns a buffer of exactly the target length:
\* the first T units of the input when it is longer, the input followed by
\* T - L units of silence when it is shorter, the input itself when L = T.
C1_FitExact ==
    ret.done =>
        LET L == Len(arg.audio)
            T == arg.target
        IN  /\ Len(ret.val) = T
            /\ L > T => ret.val = SubSeq(arg.audio, 1, T)
            /\ L < T => /\ SubSeq(ret.val, 1, L) = arg.audio
                        /\ \A i \in (L + 1)..T : ret.val[i] = 0
            /\ L = T => ret.val = arg.audio

C1_Witness ==
    /\ ret.done
    /\ Len(arg.audio) > arg.target
    /\ arg.target > 0
    /\ arg.audio[1] = 1

-----------------------------------------------------------------------------
(* Pitch normalizer.  A frequency is an exact dyadic number <<m, e>> = m * 2^e *)
(* Hz, so that doubling and halving lose nothing; a ratio is a fraction      *)
(* <<n, d>> with d > 0.                                                      *)

MaxFreq == 5200      \* input frequencies are the whole numbers 1..MaxFreq Hz
MaxOctaves == 13     \* octave shifts examined when relating input and output

RECURSIVE Pow2(_)
Pow2(n) == IF n <= 0 THEN 1 ELSE 2 * Pow2(n - 1)

Hz(n) == <<n, 0>>

\* v < c, v > c for a dyadic v and a whole number c
DyLess(v, c) == IF v[2] >= 0 THEN v[1] * Pow2(v[2]) < c
                ELSE v[1] < c * Pow2(-v[2])
DyGreater(v, c) == IF v[2] >= 0 THEN v[1] * Pow2(v[2]) > c
                   ELSE v[1] > c * Pow2(-v[2])
\* equality of two dyadic numbers
DyEq(v, w) ==
    LET k == Min(v[2], w[2])
    IN  v[1] * Pow2(v[2] - k) = w[1] * Pow2(w[2] - k)

\* max(lo, min(hi, v))
ClampHz(v, lo, hi) ==
    LET upper == IF DyGreater(v, hi) THEN Hz(hi) ELSE v
    IN  IF DyLess(upper, lo) THEN Hz(lo) ELSE upper

\* while frequency < lo: frequency *= 2.0
RECURSIVE OctaveUp(_, _)
OctaveUp(v, lo) == IF DyLess(v, lo) THEN OctaveUp(<<v[1], v[2] + 1>>, lo) ELSE v

\* while frequency > hi: frequency /= 2.0
RECURSIVE OctaveDown(_, _)
OctaveDown(v, hi) == IF DyGreater(v, hi) THEN OctaveDown(<<v[1], v[2] - 1>>, hi) ELSE v

TARGET_MIN == 180
TARGET_MAX == 450

\* a fold into a band narrower than one octave
NormalizeToNarrowBand(frequency) ==
    OctaveDown(OctaveUp(frequency, TARGET_MIN), 300)

\* AdvancedVocalSynthesizer._normalize_to_vocal_octave
NormalizeToVocalOctave(frequency) ==
    OctaveDown(OctaveUp(frequency, TARGET_MIN), TARGET_MAX)

min_pitch_hz == 200
max_pitch_hz == 500

\* the fold written inline in sing_chord_name_to_melody_contour, with its
\* final "ensure it's within bounds" clamp
NormalizeContourFreq(freq) ==
    ClampHz(OctaveUp(OctaveDown(freq, max_pitch_hz), min_pitch_hz),
            min_pitch_hz, max_pitch_hz)

COACH_TARGET_MIN == 200
COACH_TARGET_MAX == 500

\* _normalize_to_vocal_octave of the ai-music-coach copy
CoachNormalizeToVocalOctave(frequency) ==
    OctaveDown(OctaveUp(frequency, COACH_TARGET_MIN), COACH_TARGET_MAX)

\* folded_hz / baseline as a fraction
RatioOf(v, baseline) ==
    IF v[2] >= 0 THEN <<v[1] * Pow2(v[2]), baseline>>
    ELSE <<v[1], baseline * Pow2(-v[2])>>

FrLess(a, b) == a[1] * b[2] < b[1] * a[2]
FrLeq(a, b) == a[1] * b[2] <= b[1] * a[2]

\* max(lo, min(hi, ratio)) for fractions
ClampRatio(r, lo, hi) ==
    LET upper == IF FrLess(hi, r) THEN hi ELSE r
    IN  IF FrLess(upper, lo) THEN lo ELSE upper

MIN_VOCAL_PITCH == 150
MAX_VOCAL_PITCH == 500
original_pitch == 250

\* AdvancedVocalSynthesizer._apply_pitch_mapping: the pitch factor handed to
\* resample; the clamp is max(0.8, min(1.4, pitch_factor))
PitchFactorMapping(target_pitch) ==
    ClampRatio(RatioOf(ClampHz(NormalizeToVocalOctave(target_pitch),
                               MIN_VOCAL_PITCH, MAX_VOCAL_PITCH), original_pitch),
               <<8, 10>>, <<14, 10>>)

orig_pitch_hz == 250

\* VocalSynthesizer.sing_chord_name: max(0.5, min(2.0, target / 250))
PitchFactorSingChordName(target_pitch_hz) ==
    ClampRatio(RatioOf(target_pitch_hz, orig_pitch_hz), <<5, 10>>, <<20, 10>>)

\* VocalSynthesizer.sing_chord_name_to_melody_contour, one melody point with
\* freq > 0: max(0.7, min(1.5, normalized / 250))
PitchFactorContour(freq) ==
    ClampRatio(RatioOf(NormalizeContourFreq(freq), orig_pitch_hz),
               <<7, 10>>, <<15, 10>>)

-----------------------------------------------------------------------------
(* SpecFold: octave folding applied, then applied again to its own result *)

FoldFns == {"advanced", "contour", "coach"}

BandOf(fn) ==
    CASE fn = "advanced" -> <<TARGET_MIN, TARGET_MAX>>
      [] fn = "contour"  -> <<min_pitch_hz, max_pitch_hz>>
      [] fn = "coach"    -> <<COACH_TARGET_MIN, COACH_TARGET_MAX>>

InitFold ==
    /\ IdleSynth
    /\ IdleJobs
    /\ arg \in [fn : FoldFns, freq : 1..MaxFreq]
    /\ ret = Pending

FoldWith(fn, v) ==
    CASE fn = "advanced" -> NormalizeToVocalOctave(v)
      [] fn = "contour"  -> NormalizeContourFreq(v)
      [] fn = "coach"    -> CoachNormalizeToVocalOctave(v)

\* the fold called on the input frequency
FoldOnce ==
    /\ ~ret.done
    /\ LET f == FoldWith(arg.fn, Hz(arg.freq))
       IN  ret' = Returned([first |-> f, last |-> f, n |-> 1])
    /\ UNCHANGED <<arg, synthVars, jobVars>>

\* the fold called again on its own result
FoldAgain ==
    /\ ret.done
    /\ ret.val.n = 1
    /\ ret' = Returned([first |-> ret.val.first,
                        last |-> FoldWith(arg.fn, ret.val.last), n |-> 2])
    /\ UNCHANGED <<arg, synthVars, jobVars>>

NextFold == FoldOnce \/ FoldAgain

SpecFold == InitFold /\ [][NextFold]_vars

InBand(v, band) == ~DyLess(v, band[1]) /\ ~DyGreater(v, band[2])

\* C9: octave folding of a positive frequency ends with a value inside the
\* target band that is the input times an integer power of two, and folding
\* the result again returns it unchanged.
C9_FoldInBandIdempotent ==
    ret.done =>
        /\ InBand(ret.val.first, BandOf(arg.fn))
        /\ \E k \in (-MaxOctaves)..MaxOctaves :
               DyEq(ret.val.first, <<arg.freq, k>>)
        /\ DyEq(ret.val.last, ret.val.first)

C9_Witness ==
    /\ ret.done
    /\ ret.val.n = 2
    /\ arg.fn = "advanced"
    /\ arg.freq = 55
    /\ DyEq(ret.val.last, Hz(220))

-----------------------------------------------------------------------------
(* SpecPitch: the pitch factor each pitch-mapping path hands to its shifter *)

PitchFns == {"mapping", "sing", "contour"}

InitPitch ==
    /\ IdleSynth
    /\ IdleJobs
    /\ arg \in [fn : PitchFns, freq : 1..MaxFreq]
    /\ ret = Pending

ApplyPitchMapping ==
    /\ arg.fn = "mapping"
    /\ ~ret.done
    /\ ret' = Returned(PitchFactorMapping(Hz(arg.freq)))
    /\ UNCHANGED <<arg, synthVars, jobVars>>

SingChordName ==
    /\ arg.fn = "sing"
    /\ ~ret.done
    /\ ret' = Returned(PitchFactorSingChordName(Hz(arg.freq)))
    /\ UNCHANGED <<arg, synthVars, jobVars>>

SingChordNameToMelodyContour ==
    /\ arg.fn = "contour"
    /\ ~ret.done
    /\ ret' = Returned(PitchFactorContour(Hz(arg.freq)))
    /\ UNCHANGED <<arg, synthVars, jobVars>>

NextPitch == ApplyPitchMapping \/ SingChordName \/ SingChordNameToMelodyContour

SpecPitch == InitPitch /\ [][NextPitch]_vars

\* C8: for every input frequency the pitch-shift ratio handed to the shifter
\* lies within [0.8, 1.5], in every path that maps pitch.
C8_RatioInClampBand ==
    ret.done => FrLeq(<<8, 10>>, ret.val) /\ FrLeq(ret.val, <<15, 10>>)

-----------------------------------------------------------------------------
(* Synthesizer runs.  Times are whole ticks of half a millisecond, so that   *)
(* int(t * 1000) has something to cut off; sample values are amplitudes of   *)
(* 16-bit PCM with 0 for silence.                                            *)

TicksPerMs == 2
MaxSegs == 2         \* longest chord timeline

MAX_SAMPLE == 32767
MIN_SAMPLE == -32768
VoiceAmp == 20000    \* amplitude of the speech engine's samples
BedAmp == 9000       \* amplitude of the instrumental's samples

TimePoints == {0, 80, 81, 160}             \* segment boundaries, in ticks
Durations == {80, 321}                     \* song durations, in ticks
BedLens == {40, 160}                       \* lengths of the instrumental file, in ms
UttLens == {20, 60, 100}                   \* lengths of the engine's utterances, in ms

\* int(t * 1000) for a time t in seconds
ToMs(t) == t \div TicksPerMs

Clip(x) == Max(MIN_SAMPLE, Min(MAX_SAMPLE, x))

Tone(n, amp) == [k \in 1..n |-> amp]

\* base.overlay(seg, position): additive, saturating, never longer than base
Overlay(base, seg, position) ==
    [k \in 1..Len(base) |->
        IF k > position /\ k <= position + Len(seg)
        THEN Clip(base[k] + seg[k - position])
        ELSE base[k]]

\* an overlay that lets the overlaid segment extend the base
OverlayExtending(base, seg, position) ==
    [k \in 1..Max(Len(base), position + Len(seg)) |->
        IF k > position /\ k <= position + Len(seg)
        THEN Clip((IF k <= Len(base) THEN base[k] ELSE 0) + seg[k - position])
        ELSE base[k]]

\* audio + dB as a factor num / 1000 (audioop.mul: floor, then saturate)
ApplyGain(audio, num) ==
    [k \in 1..Len(audio) |-> Clip((audio[k] * num) \div 1000)]

GAIN_PLUS_5_DB == 1778       \* 10 ^ (5 / 20), per mille
GAIN_MINUS_10_DB == 316      \* 10 ^ (-10 / 20), per mille

FALLBACK_SILENCE_MS == 1000

Raised == [raised |-> TRUE, audio |-> <<>>]
Audio(a) == [raised |-> FALSE, audio |-> a]

\* _apply_subtle_singing_effects, as far as length, silence and failure go
\* (sample values are kept as they are): unchanged below 2 samples; the reverb mix
\* samples * 0.8 + reverb_signal * 0.2 cannot be formed when the buffer is
\* shorter than the impulse response (np.convolve(mode='same') then has the
\* impulse response's length), which raises; silence stays silence
ApplySubtleSingingEffects(samples) ==
    LET n  == Len(samples)
        sr == 1000
        reverb_length == (5 * sr) \div 100
    IN  IF n < 2 THEN Audio(samples)
        ELSE IF n < reverb_length THEN Raised
        ELSE Audio(samples)

\* enhancements that hand the utterance on at whatever length it has
ApplyEnhancementsUnfitted(audio, duration_ms) ==
    ApplySubtleSingingEffects(audio)

\* _apply_basic_singing_enhancements
ApplyBasicSingingEnhancements(audio, duration_ms) ==
    LET enhanced == ApplySubtleSingingEffects(audio)
    IN  IF enhanced.raised THEN Raised
        ELSE Audio(AdjustAudioDuration(enhanced.audio, duration_ms))

\* _synthesize_with_coqui_tts / _synthesize_single_chord: the engine's audio,
\* or one second of silence when the engine call failed
SynthesizeSpeech(utt, engine_failed) ==
    IF engine_failed THEN Silent(FALLBACK_SILENCE_MS) ELSE Tone(utt, VoiceAmp)

-----------------------------------------------------------------------------
(* The pitch-shifting stage of the sung path *)

MaxMelody == 1                  \* most melody points inside one chord segment
MelodyFreqs == {110, 5000}      \* their frequencies, in Hz

\* scipy.signal.resample(samples, new_length), as far as silence and length go
Resample(samples, new_length) ==
    [k \in 1..new_length |-> samples[((k - 1) * Len(samples)) \div new_length + 1]]

\* _spectral_pitch_shift: librosa's phase vocoder keeps the length; when it
\* fails the fallback resamples to int(len(samples) / pitch_factor)
SpectralPitchShift(samples, pitch_factor, vocoder_ok) ==
    IF Len(samples) < 2 THEN samples
    ELSE IF vocoder_ok THEN samples
    ELSE LET new_length == (Len(samples) * pitch_factor[2]) \div pitch_factor[1]
         IN  IF new_length > 1 THEN Resample(samples, new_length) ELSE samples

\* the loop of sing_chord_name_to_melody_contour over the melody points
RECURSIVE ShiftPieces(_, _, _, _)
ShiftPieces(samples, melody_segment, i, vocoder_ok) ==
    IF i > Len(melody_segment) THEN <<>>
    ELSE LET n_segments == Len(melody_segment)
             segment_length == Len(samples) \div n_segments
             start == (i - 1) * segment_length
             end == IF i < n_segments THEN i * segment_length ELSE Len(samples)
             seg == SubSeq(samples, start + 1, end)
         IN  SpectralPitchShift(seg, PitchFactorContour(Hz(melody_segment[i])), vocoder_ok)
                 \o ShiftPieces(samples, melody_segment, i + 1, vocoder_ok)

\* sing_chord_name_to_melody_contour, after the speech engine has answered
SingChordNameToContour(tts_audio, melody_segment, vocoder_ok, duration_ms) ==
    IF melody_segment = <<>>
    THEN AdjustAudioDuration(tts_audio, duration_ms)
    ELSE AdjustAudioDuration(ShiftPieces(tts_audio, melody_segment, 1, vocoder_ok),
                             duration_ms)

-----------------------------------------------------------------------------
(* SpecSynth: synthesize_stable_chord_vocals, synthesize_sung_chord_vocals   *)
(* (VocalSynthesizer) and synthesize_spoken_chord_vocals, called directly.   *)

Paths == {"stable", "sung", "spoken"}

Segs == {seg \in [start : TimePoints, end : TimePoints] : seg.end > seg.start}

\* timelines in non-decreasing start order, end > start
Timelines ==
    {tl \in UNION {[1..n -> Segs] : n \in 0..MaxSegs} :
        \A k \in 1..(Len(tl) - 1) : tl[k].start <= tl[k + 1].start}

Melodies == UNION {[1..n -> MelodyFreqs] : n \in 1..MaxMelody}

Trial(utt, inject, melody, vocoder) ==
    [utt |-> utt, inject |-> inject, melody |-> melody, vocoder |-> vocoder]

\* what one pass of the segment loop meets: the engine's utterance, the melody
\* points of the segment, whether librosa works, and the failure forced on it
TrialsOf(p) ==
    {Trial(u, "none", <<>>, TRUE) : u \in UttLens}
    \cup {Trial(100, "tts", <<>>, TRUE)}
    \cup (IF p = "spoken" THEN {} ELSE {Trial(100, "effects", <<>>, TRUE)})
    \cup (IF p = "sung"
          THEN {Trial(100, "none", m, v) : m \in Melodies, v \in BOOLEAN}
          ELSE {})

InitSynth ==
    /\ IdleFn
    /\ IdleJobs
    /\ path \in Paths
    /\ chord_timeline \in Timelines
    /\ duration \in Durations
    /\ bed \in (IF path = "spoken" THEN {-1} ELSE BedLens \cup {-1})
    /\ sy_pc = "start" /\ sy_err = "none" /\ seg_i = 1
    /\ instrumental_track = <<>> /\ vocals_track = <<>> /\ ref_track = <<>>
    /\ injected = {} /\ out_file = NoFile
    /\ IdleTts

\* AudioSegment.from_file(original_audio_path), and what the entry point makes
\* of it before the loop
LoadInstrumental(p, bed_ms, dur) ==
    LET expected_duration_ms == ToMs(dur)
        loaded == Tone(bed_ms, BedAmp)
    IN  IF bed_ms < 0 THEN Silent(expected_duration_ms)
        ELSE IF p = "sung" /\ Len(loaded) # expected_duration_ms
             THEN IF Len(loaded) > expected_duration_ms
                  THEN SliceTo(loaded, expected_duration_ms)
                  ELSE loaded \o Silent(expected_duration_ms - Len(loaded))
             ELSE loaded

SynthStart ==
    /\ sy_pc = "start"
    /\ IF path = "spoken"
       THEN /\ instrumental_track' = <<>>
            /\ vocals_track' = Silent(ToMs(duration))
       ELSE /\ instrumental_track' = LoadInstrumental(path, bed, duration)
            /\ vocals_track' = Silent(Len(instrumental_track'))
    /\ ref_track' = vocals_track'
    /\ sy_pc' = "loop"
    /\ UNCHANGED <<fnVars, jobVars, ttsVars, path, chord_timeline, duration, bed, sy_err, seg_i,
                   injected, out_file>>

\* the body of the loop for one segment: the utterance to overlay, or Raised
SegmentAudio(p, seg, trial, inject) ==
    LET tts == SynthesizeSpeech(trial.utt, inject = "tts")
    IN  CASE p = "stable" ->
                 IF inject = "effects" THEN Raised
                 ELSE ApplyBasicSingingEnhancements(tts, ToMs(seg.end - seg.start))
          [] p = "sung" ->
                 IF inject = "effects" THEN Raised
                 ELSE Audio(SingChordNameToContour(tts, trial.melody, trial.vocoder,
                                                   ToMs(seg.end - seg.start)))
          [] p = "spoken" ->
                 Audio(AdjustAudioDuration(tts, ToMs(seg.end) - ToMs(seg.start)))

\* a loop whose body is not inside try / except
CatchesNothing(p) == FALSE

\* whether the loop body is inside try / except Exception
CatchesSegmentError(p) == p \in {"stable", "sung"}

PlaceSegment(canvas, seg, outcome) ==
    IF outcome.raised THEN canvas
    ELSE Overlay(canvas, outcome.audio, ToMs(seg.start))

SynthSegment ==
    /\ sy_pc = "loop"
    /\ seg_i <= Len(chord_timeline)
    /\ \E trial \in TrialsOf(path) :
       \E outcome \in {SegmentAudio(path, chord_timeline[seg_i], trial, trial.inject)} :
       \E reference \in {SegmentAudio(path, chord_timeline[seg_i], trial, "none")} :
         LET seg == chord_timeline[seg_i]
         IN  /\ injected' = IF trial.inject = "none" THEN injected
                            ELSE injected \cup {seg_i}
             /\ ref_track' = PlaceSegment(ref_track, seg, reference)
             /\ IF outcome.raised /\ ~CatchesSegmentError(path)
                THEN /\ sy_pc' = "raised" /\ sy_err' = "segment"
                     /\ UNCHANGED <<vocals_track, seg_i>>
                ELSE /\ vocals_track' = PlaceSegment(vocals_track, seg, outcome)
                     /\ seg_i' = seg_i + 1
                     /\ UNCHANGED <<sy_pc, sy_err>>
    /\ UNCHANGED <<fnVars, jobVars, ttsVars, path, chord_timeline, duration, bed,
                   instrumental_track, out_file>>

\* mixing and combined_audio.export(output_path, format='wav')
SynthMixAndExport ==
    /\ sy_pc = "loop"
    /\ seg_i > Len(chord_timeline)
    /\ \E export_ok \in BOOLEAN :
       \E ducked \in {ApplyGain(instrumental_track, GAIN_MINUS_10_DB)} :
       \E boosted \in {ApplyGain(vocals_track, GAIN_PLUS_5_DB)} :
       \E combined_audio \in {IF path = "spoken" THEN vocals_track
                              ELSE Overlay(ducked, boosted, 0)} :
         /\ IF path = "spoken"
            THEN UNCHANGED <<instrumental_track, vocals_track, ref_track>>
            ELSE /\ instrumental_track' = ducked
                 /\ vocals_track' = boosted
                 /\ ref_track' = ApplyGain(ref_track, GAIN_PLUS_5_DB)
         /\ out_file' = IF export_ok THEN [exists |-> TRUE, audio |-> combined_audio]
                        ELSE NoFile
         /\ IF export_ok \/ path = "sung"
            THEN sy_pc' = "returned" /\ sy_err' = "none"
            ELSE sy_pc' = "raised" /\ sy_err' = "export"
    /\ UNCHANGED <<fnVars, jobVars, ttsVars, path, chord_timeline, duration, bed, seg_i, injected>>

NextSynth == SynthStart \/ SynthSegment \/ SynthMixAndExport

SpecSynth == InitSynth /\ [][NextSynth]_vars


\* ---- properties of a synthesis run ----

\* the segment loop has run to its end (the canvas holds every overlay)
AllPlaced ==
    /\ sy_pc \in {"loop", "returned", "raised"}
    /\ seg_i > Len(chord_timeline)

\* frame k of a canvas (1-based, one frame per millisecond) lies in the
\* window [start, end) of a segment
FrameInWindow(k, seg) ==
    /\ (k - 1) * TicksPerMs < seg.end
    /\ k * TicksPerMs > seg.start

\* C2: for every instrumental bed and chord timeline, the written output lasts
\* exactly int(original_audio_duration_sec * 1000) milliseconds
C2_OutputDuration ==
    out_file.exists => Len(out_file.audio) = ToMs(duration)

\* C10: once every segment has been overlaid, each canvas position that lies
\* in no segment's window [start, end) is silent
C10_OutsideWindowsSilent ==
    AllPlaced =>
        \A k \in 1..Len(vocals_track) :
            (\A j \in 1..Len(chord_timeline) : ~FrameInWindow(k, chord_timeline[j]))
                => vocals_track[k] = 0

\* two utterances at the start and the middle of the first half of a canvas
\* twice as long: both are audible, the second half stays silent
C10_Witness ==
    /\ AllPlaced
    /\ path = "stable"
    /\ chord_timeline = <<[start |-> 0, end |-> 80], [start |-> 80, end |-> 160]>>
    /\ Len(vocals_track) = 160
    /\ vocals_track[1] # 0
    /\ vocals_track[41] # 0
    /\ \A k \in 81..160 : vocals_track[k] = 0

\* the one segment whose synthesis or effects step was made to fail
FailedSeg == chord_timeline[CHOOSE f \in injected : TRUE]

OneSegmentFailed ==
    /\ Cardinality(injected) = 1
    /\ sy_pc \in {"loop", "returned", "raised"}
    /\ seg_i > Len(chord_timeline) \/ sy_err = "segment"

-----------------------------------------------------------------------------
(* SpecJob: process_song_endpoint and MusicCoachProcessor.process_song of    *)
(* backend/main.py.  The handler is a coroutine that never awaits, so the    *)
(* event loop runs one request to its end before it starts the next.         *)

allowed_types == {"audio/mpeg", "audio/wav", "audio/flac", "audio/mp4", "audio/ogg"}

ContentTypes == {"audio/mpeg", "audio/wav", "text/plain"}

PreprocessOutcomes == {"ok", "FileNotFoundError", "ValueError", "Exception"}

FALLBACK_CHORDS == 4         \* length of the fallback progression of detect_chords
DetectedCounts == {1, 3}     \* lengths of the timelines the recognizer gives

\* str(e) of what preprocess_audio raises
PreprocessError(outcome) ==
    CASE outcome = "FileNotFoundError" -> "Audio file not found"
      [] outcome = "ValueError" -> "Unsupported file format"
      [] OTHER -> "Error preprocessing audio file"

\* the keyword arguments of the call at main.py:90 and the parameters of
\* synthesize_stable_chord_vocals_sync
PassedKeywords ==
    {"chord_timeline", "original_audio_duration_sec", "output_path",
     "original_audio_path", "tts_engine", "voice_name"}

AcceptedParameters ==
    {"chord_timeline", "original_audio_duration_sec", "output_path",
     "original_audio_path", "model_name", "vocoder_name"}

\* whether Python can bind the call's arguments; a call that cannot be bound
\* raises TypeError before the callee runs
SynthCallBinds == PassedKeywords \subseteq AcceptedParameters

UnexpectedKeyword ==
    "synthesize_stable_chord_vocals_sync() got an unexpected keyword argument 'tts_engine'"

\* str(e) of os.path.exists(None)
NoneTypePath ==
    "stat: path should be string, bytes, os.PathLike or integer, not NoneType"

StatusEntry(s, p, m) == [status |-> s, progress |-> p, message |-> m]

\* processing_status[job_id] = {...}
SetStatus(j, s, p, m) ==
    /\ processing_status' = [processing_status EXCEPT ![j] = StatusEntry(s, p, m)]
    /\ hist' = [hist EXCEPT ![j] = Append(@, s)]

NoneInFlight == \A k \in Jobs : job_pc[k] \in {"none", "done"}

InitJob ==
    /\ IdleFn
    /\ IdleSynth
    /\ IdleJobs

\* a validation that lets every content type through
AnyTypeAllowed(content_type) == TRUE

\* file.content_type in allowed_types (main.py:168)
TypeAllowed(content_type) == content_type \in allowed_types

\* POST /process-song/ up to the first status entry
Request ==
    \E j \in Jobs, content_type \in ContentTypes :
        /\ NoneInFlight
        /\ job_pc[j] = "none"
        /\ \A k \in 1..(j - 1) : job_pc[k] = "done"
        /\ IF ~TypeAllowed(content_type)
           THEN /\ response' = [response EXCEPT ![j] = [code |-> 400, job_id |-> FALSE]]
                /\ job_pc' = [job_pc EXCEPT ![j] = "done"]
                /\ UNCHANGED <<processing_status, hist>>
           ELSE /\ SetStatus(j, "starting", 0, "Starting processing...")
                /\ job_pc' = [job_pc EXCEPT ![j] = "save"]
                /\ UNCHANGED response
        /\ faults' = [faults EXCEPT ![j] =
                         IF content_type \in allowed_types THEN @
                         ELSE @ \cup {"content_type"}]
        /\ UNCHANGED <<fnVars, synthVars, processing_results, files, ps_locals,
                       exc, ps_exit>>

\* the upload is written to temp_input_path and process_song is entered
SaveUpload ==
    \E j \in Jobs, saved \in BOOLEAN :
        /\ job_pc[j] = "save"
        /\ IF saved
           THEN /\ files' = [files EXCEPT ![j] = @ \cup {"input"}]
                /\ SetStatus(j, "preprocessing", 10, "Preprocessing audio...")
                /\ job_pc' = [job_pc EXCEPT ![j] = "preprocessing"]
                /\ UNCHANGED <<exc, faults>>
           ELSE /\ exc' = [exc EXCEPT ![j] = "upload could not be saved"]
                /\ faults' = [faults EXCEPT ![j] = @ \cup {"upload"}]
                /\ job_pc' = [job_pc EXCEPT ![j] = "endpoint_except"]
                /\ UNCHANGED <<files, processing_status, hist>>
        /\ UNCHANGED <<fnVars, synthVars, processing_results, ps_locals, ps_exit,
                       response>>

\* preprocess_audio returns or raises
PreprocessReturns ==
    \E j \in Jobs, outcome \in PreprocessOutcomes :
        /\ job_pc[j] = "preprocessing"
        /\ IF outcome = "ok"
           THEN /\ ps_locals' = [ps_locals EXCEPT ![j].processed_audio_path = "processed"]
                /\ files' = [files EXCEPT ![j] = @ \cup {"processed"}]
                /\ SetStatus(j, "separating_vocals", 20,
                             "Separating vocals from instrumental...")
                /\ job_pc' = [job_pc EXCEPT ![j] = "separating_vocals"]
                /\ UNCHANGED <<exc, faults>>
           ELSE /\ exc' = [exc EXCEPT ![j] = PreprocessError(outcome)]
                /\ faults' = [faults EXCEPT ![j] = @ \cup {"preprocess"}]
                /\ job_pc' = [job_pc EXCEPT ![j] = "except"]
                /\ UNCHANGED <<ps_locals, files, processing_status, hist>>
        /\ UNCHANGED <<fnVars, synthVars, processing_results, ps_exit, response>>

\* separate_vocals returns: two new files, or (the path it was given, None);
\* both ways it has made a directory with tempfile.mkdtemp()
SeparateReturns ==
    \E j \in Jobs, separated \in BOOLEAN :
        /\ job_pc[j] = "separating_vocals"
        /\ IF separated
           THEN /\ ps_locals' = [ps_locals EXCEPT ![j].instrumental_path = "accompaniment",
                                                  ![j].vocals_path = "vocals"]
                /\ files' = [files EXCEPT ![j] =
                                 @ \cup {"separation_dir", "accompaniment", "vocals"}]
                /\ UNCHANGED faults
           ELSE /\ ps_locals' = [ps_locals EXCEPT
                                    ![j].instrumental_path = ps_locals[j].processed_audio_path,
                                    ![j].vocals_path = "None"]
                /\ faults' = [faults EXCEPT ![j] = @ \cup {"separate"}]
                /\ files' = [files EXCEPT ![j] = @ \cup {"separation_dir"}]
        /\ SetStatus(j, "detecting_chords", 30, "Detecting chords...")
        /\ job_pc' = [job_pc EXCEPT ![j] = "detecting_chords"]
        /\ UNCHANGED <<fnVars, synthVars, processing_results, exc, ps_exit, response>>

\* detect_chords returns: the recognizer's timeline, or the fallback progression
DetectReturns ==
    \E j \in Jobs, n \in DetectedCounts \cup {0} :
        /\ job_pc[j] = "detecting_chords"
        /\ IF n > 0
           THEN /\ ps_locals' = [ps_locals EXCEPT ![j].detected_chords = n]
                /\ UNCHANGED faults
           ELSE /\ ps_locals' = [ps_locals EXCEPT ![j].detected_chords = FALLBACK_CHORDS]
                /\ faults' = [faults EXCEPT ![j] = @ \cup {"detect"}]
        /\ SetStatus(j, "extracting_melody", 50, "Extracting melody...")
        /\ job_pc' = [job_pc EXCEPT ![j] = "extracting_melody"]
        /\ UNCHANGED <<fnVars, synthVars, processing_results, files, exc, ps_exit,
                       response>>

\* extract_melody returns: a contour, or [] when extraction failed
ExtractReturns ==
    \E j \in Jobs, extracted \in BOOLEAN :
        /\ job_pc[j] = "extracting_melody"
        /\ faults' = [faults EXCEPT ![j] = IF extracted THEN @ ELSE @ \cup {"extract"}]
        /\ SetStatus(j, "synthesizing", 70, "Synthesizing vocals...")
        /\ job_pc' = [job_pc EXCEPT ![j] = "synthesizing"]
        /\ UNCHANGED <<fnVars, synthVars, processing_results, files, ps_locals, exc,
                       ps_exit, response>>

\* the files the success path removes (main.py:104-109); "input" is
\* input_audio_path
AfterSuccessCleanup(fs, loc) ==
    LET a == fs \ {loc.processed_audio_path}
        b == IF loc.instrumental_path # "input" THEN a \ {loc.instrumental_path} ELSE a
    IN  IF loc.vocals_path # "None" THEN b \ {loc.vocals_path} ELSE b

\* the call of synthesize_stable_chord_vocals_sync and what follows it in the
\* try block
SynthesizeReturns ==
    \E j \in Jobs, synthesized \in BOOLEAN, unlinked \in BOOLEAN :
        /\ job_pc[j] = "synthesizing"
        /\ IF ~SynthCallBinds
           THEN /\ exc' = [exc EXCEPT ![j] = UnexpectedKeyword]
                /\ job_pc' = [job_pc EXCEPT ![j] = "except"]
                /\ UNCHANGED <<processing_status, hist, processing_results, files,
                               ps_exit, faults>>
           ELSE IF ~synthesized
           THEN /\ exc' = [exc EXCEPT ![j] = "output could not be written"]
                /\ faults' = [faults EXCEPT ![j] = @ \cup {"synthesize"}]
                /\ job_pc' = [job_pc EXCEPT ![j] = "except"]
                /\ UNCHANGED <<processing_status, hist, processing_results, files,
                               ps_exit>>
           ELSE /\ SetStatus(j, "completed", 100, "Processing complete!")
                /\ processing_results' = [processing_results EXCEPT ![j] = "output"]
                /\ IF unlinked
                   THEN /\ files' = [files EXCEPT ![j] =
                                        AfterSuccessCleanup(@ \cup {"output"}, ps_locals[j])]
                        /\ ps_exit' = [ps_exit EXCEPT ![j] =
                                          [kind |-> "returned", exc |-> "", cause |-> "",
                                           chord_count |-> ps_locals[j].detected_chords]]
                        /\ job_pc' = [job_pc EXCEPT ![j] = "ps_returned"]
                        /\ UNCHANGED <<exc, faults>>
                   ELSE /\ files' = [files EXCEPT ![j] = @ \cup {"output"}]
                        /\ exc' = [exc EXCEPT ![j] = "file could not be removed"]
                        /\ faults' = [faults EXCEPT ![j] = @ \cup {"unlink"}]
                        /\ job_pc' = [job_pc EXCEPT ![j] = "except"]
                        /\ UNCHANGED ps_exit
        /\ UNCHANGED <<fnVars, synthVars, ps_locals, response>>

TempNames == <<"processed_audio_path", "instrumental_path", "vocals_path">>

\* the cleanup loop of the except block (main.py:124-126): the files left,
\* and whether os.path.exists raised on a value that is not a path
RECURSIVE CleanupAfterError(_, _, _)
CleanupAfterError(i, fs, loc) ==
    IF i > Len(TempNames) THEN [files |-> fs, raised |-> FALSE]
    ELSE LET v == loc[TempNames[i]]
         IN  IF v = "unbound" THEN CleanupAfterError(i + 1, fs, loc)
             ELSE IF v = "None" THEN [files |-> fs, raised |-> TRUE]
             ELSE CleanupAfterError(i + 1, fs \ {v}, loc)

\* except Exception as e: of process_song
HandleException ==
    \E j \in Jobs :
        /\ job_pc[j] = "except"
        /\ SetStatus(j, "error", 0, "Error: " \o exc[j])
        /\ LET c == CleanupAfterError(1, files[j], ps_locals[j])
               raised == IF c.raised THEN NoneTypePath
                         ELSE "Error processing song: " \o exc[j]
           IN  /\ files' = [files EXCEPT ![j] = c.files]
               /\ ps_exit' = [ps_exit EXCEPT ![j] =
                                 [kind |-> "raised", exc |-> raised, cause |-> exc[j],
                                  chord_count |-> 0]]
               /\ exc' = [exc EXCEPT ![j] = raised]
        /\ job_pc' = [job_pc EXCEPT ![j] = "ps_raised"]
        /\ UNCHANGED <<fnVars, synthVars, processing_results, ps_locals, faults,
                       response>>

\* an except block that puts the job back to its first status
ExceptRestarts(e) == "starting"

\* the "status" the endpoint's except block writes (main.py:203)
ExceptStatus(e) == "error"

\* an error response that tells the job id
ErrorResponseWithId(e) == [code |-> 500, job_id |-> TRUE]

\* raise HTTPException(status_code=500, ...) (main.py:204): no job id
ErrorResponse(e) == [code |-> 500, job_id |-> FALSE]

\* an exception handler that leaves the status entry as it is
EndpointKeepsStatus(old, e) == old

\* the status entry written by the endpoint's except block (main.py:203)
EndpointErrorStatus(old, e) == StatusEntry(ExceptStatus(e), 0, "Error: " \o e)

\* the end of the endpoint: return, or except, and finally
EndpointFinish ==
    \E j \in Jobs :
        /\ job_pc[j] \in {"ps_raised", "ps_returned", "endpoint_except"}
        /\ IF exc[j] # ""
           THEN /\ processing_status' = [processing_status EXCEPT ![j] =
                                            EndpointErrorStatus(@, exc[j])]
                /\ hist' = [hist EXCEPT ![j] = Append(@, processing_status'[j].status)]
                /\ response' = [response EXCEPT ![j] = ErrorResponse(exc[j])]
           ELSE /\ response' = [response EXCEPT ![j] = [code |-> 200, job_id |-> TRUE]]
                /\ UNCHANGED <<processing_status, hist>>
        /\ files' = [files EXCEPT ![j] = @ \ {"input"}]
        /\ exc' = [exc EXCEPT ![j] = ""]
        /\ job_pc' = [job_pc EXCEPT ![j] = "done"]
        /\ UNCHANGED <<fnVars, synthVars, processing_results, ps_locals, ps_exit,
                       faults>>

JobStep ==
    \/ SaveUpload
    \/ PreprocessReturns
    \/ SeparateReturns
    \/ DetectReturns
    \/ ExtractReturns
    \/ SynthesizeReturns
    \/ HandleException
    \/ EndpointFinish

NextJob == Request \/ JobStep

SpecJob == InitJob /\ [][NextJob]_vars

\* every call the handler makes returns or raises, and the handler goes on
SpecJobFair == InitJob /\ [][NextJob]_vars /\ WF_vars(JobStep)

\* ---- properties of the jobs ----

Terminal(j) ==
    /\ processing_status[j].status \in {"completed", "error"}
    /\ processing_status[j].message # ""

\* C4: every job that got a status entry eventually has status completed or
\* error with a non-empty message
C4_EveryJobTerminates ==
    \A j \in Jobs : (processing_status[j] # NoStatus) ~> Terminal(j)

\* a job that went through every stage and ended in a terminal status
C4_Witness ==
    \E j \in Jobs :
        /\ job_pc[j] = "done"
        /\ Len(hist[j]) >= 7
        /\ hist[j][1] = "starting"
        /\ hist[j][6] = "synthesizing"
        /\ Terminal(j)

StageOrder ==
    <<"preprocessing", "separating_vocals", "detecting_chords", "extracting_melody",
      "synthesizing", "completed">>

\* the statuses written once process_song was entered
Stages(j) ==
    IF hist[j] # <<>> /\ Head(hist[j]) = "starting" THEN Tail(hist[j]) ELSE hist[j]

ProcessSongEnded(j) == job_pc[j] \in {"ps_raised", "ps_returned"}

\* C5: when no step fails the statuses are preprocessing, separating_vocals,
\* detecting_chords, extracting_melody, synthesizing, completed, in this
\* order and once each; otherwise the statuses are a prefix of these followed
\* by error only
C5_StatusOrder ==
    \A j \in Jobs :
        /\ (ProcessSongEnded(j) /\ faults[j] = {}) => Stages(j) = StageOrder
        /\ \E n \in 0..Len(StageOrder) :
              /\ n <= Len(Stages(j))
              /\ SubSeq(Stages(j), 1, n) = SubSeq(StageOrder, 1, n)
              /\ \A k \in (n + 1)..Len(Stages(j)) : Stages(j)[k] = "error"

\* C6: when every collaborator succeeds process_song returns its result with
\* chord_count > 0, the status is completed, the output path is recorded and
\* the output file exists
C6_SuccessResult ==
    \A j \in Jobs :
        (ProcessSongEnded(j) /\ faults[j] = {}) =>
            /\ ps_exit[j].kind = "returned"
            /\ ps_exit[j].chord_count > 0
            /\ processing_status[j].status = "completed"
            /\ processing_results[j] = "output"
            /\ "output" \in files[j]

\* C7: when process_song raises, the status is error with a message that
\* carries the cause, and the exception raised is the wrapped
\* 'Error processing song: ...' one
C7_SingleWrappedFailure ==
    \A j \in Jobs :
        job_pc[j] = "ps_raised" =>
            /\ processing_status[j].status = "error"
            /\ processing_status[j].message = "Error: " \o ps_exit[j].cause
            /\ ps_exit[j].exc = "Error processing song: " \o ps_exit[j].cause

-----------------------------------------------------------------------------
(* SpecDur: the length of the utterance one pass of a segment loop places *)

DurPoints == {0, 1, 2, 3, 80, 81, 160}     \* segment boundaries, in ticks

DurSegs == {seg \in [start : DurPoints, end : DurPoints] : seg.end > seg.start}

\* Python's round(t * 1000) for a time of t ticks: to the nearest
\* millisecond, a tie to the even one
RoundMs(t) ==
    LET q == t \div TicksPerMs
        r == t % TicksPerMs
    IN  IF 2 * r < TicksPerMs THEN q
        ELSE IF 2 * r > TicksPerMs THEN q + 1
        ELSE IF q % 2 = 0 THEN q ELSE q + 1

InitDur ==
    /\ IdleSynth
    /\ IdleJobs
    /\ arg \in [fn : {"segment"}, path : Paths, seg : DurSegs, utt : UttLens]
    /\ ret = Pending

\* the loop body on one segment, with an engine that answers
PlaceUtterance ==
    /\ arg.fn = "segment"
    /\ ~ret.done
    /\ ret' = Returned(SegmentAudio(arg.path, arg.seg,
                                    Trial(arg.utt, "none", <<>>, TRUE), "none"))
    /\ UNCHANGED <<arg, synthVars, jobVars>>

NextDur == PlaceUtterance

SpecDur == InitDur /\ [][NextDur]_vars

\* C11: the utterance placed for a segment (start, end) has exactly
\* round((end - start) * 1000) milliseconds, in the stable, sung and spoken
\* paths
C11_UtteranceLengthRounded ==
    (ret.done /\ ~ret.val.raised) =>
        Len(ret.val.audio) = RoundMs(arg.seg.end - arg.seg.start)

-----------------------------------------------------------------------------
(* Text normalizers.  A label is a sequence of characters (one-character     *)
(* strings; SHARP_SIGN and FLAT_SIGN stand for the musical signs U+266F and  *)
(* U+266D); what a normalizer hands to the speech engine is a string.        *)

SHARP_SIGN == "U+266F"
FLAT_SIGN == "U+266D"

LowerLetters ==
    <<"a", "b", "c", "d", "e", "f", "g", "h", "i", "j", "k", "l", "m",
      "n", "o", "p", "q", "r", "s", "t", "u", "v", "w", "x", "y", "z">>

UpperLetters ==
    <<"A", "B", "C", "D", "E", "F", "G", "H", "I", "J", "K", "L", "M",
      "N", "O", "P", "Q", "R", "S", "T", "U", "V", "W", "X", "Y", "Z">>

IndexIn(letters, c) == CHOOSE i \in 1..Len(letters) : letters[i] = c

UpperChar(c) ==
    IF \E i \in 1..Len(LowerLetters) : LowerLetters[i] = c
    THEN UpperLetters[IndexIn(LowerLetters, c)] ELSE c

LowerChar(c) ==
    IF \E i \in 1..Len(UpperLetters) : UpperLetters[i] = c
    THEN LowerLetters[IndexIn(UpperLetters, c)] ELSE c

\* str.upper() and str.lower()
Upper(s) == [i \in 1..Len(s) |-> UpperChar(s[i])]
Lower(s) == [i \in 1..Len(s) |-> LowerChar(s[i])]

\* the string made of the characters of s
RECURSIVE Text(_)
Text(s) == IF s = <<>> THEN "" ELSE Head(s) \o Text(Tail(s))

\* ' '.join(parts)
RECURSIVE Join(_)
Join(parts) ==
    IF parts = <<>> THEN ""
    ELSE IF Len(parts) = 1 THEN parts[1]
    ELSE parts[1] \o " " \o Join(Tail(parts))

\* s.startswith(tok) and s[n:]
StartsWith(s, tok) == Len(s) >= Len(tok) /\ SubSeq(s, 1, Len(tok)) = tok
Drop(s, n) == SubSeq(s, n + 1, Len(s))

NaturalRoots == {"A", "B", "C", "D", "E", "F", "G"}

\* the natural notes of root_pronunciations
NaturalName(r) ==
    CASE r = "A" -> "AYE" [] r = "B" -> "BEE" [] r = "C" -> "SEE"
      [] r = "D" -> "DEE" [] r = "E" -> "EEE" [] r = "F" -> "EFF"
      [] r = "G" -> "GEE"

\* root_pronunciations.get(root_with_accidental, root_with_accidental)
RootPronunciation(root_with_accidental) ==
    IF Len(root_with_accidental) = 1 THEN NaturalName(root_with_accidental[1])
    ELSE IF root_with_accidental[2] \in {"#", SHARP_SIGN}
    THEN NaturalName(root_with_accidental[1]) \o " SHARP"
    ELSE NaturalName(root_with_accidental[1]) \o " FLAT"

\* a root pattern whose accidental is not optional
RootMatchNeedsAccidental(enhanced) ==
    IF Len(enhanced) >= 2 /\ enhanced[1] \in NaturalRoots
       /\ enhanced[2] \in {"#", SHARP_SIGN, "b", FLAT_SIGN}
    THEN 2 ELSE 0

\* re.match on the root pattern (A-G, then optionally one of '#', the sharp
\* sign, 'b', the flat sign): the length of the match, 0 for none
RootMatch(enhanced) ==
    IF enhanced = <<>> \/ enhanced[1] \notin NaturalRoots THEN 0
    ELSE IF Len(enhanced) >= 2 /\ enhanced[2] \in {"#", SHARP_SIGN, "b", FLAT_SIGN}
    THEN 2 ELSE 1

\* chord_quality_pronunciations, in the order of the list
chord_quality_pronunciations ==
    << [tok |-> <<"M", "A", "J", "7">>, say |-> "MAJOR SEVEN"],
       [tok |-> <<"M", "I", "N", "7">>, say |-> "MINOR SEVEN"],
       [tok |-> <<"M", "A", "J">>, say |-> "MAJOR"],
       [tok |-> <<"M", "I", "N">>, say |-> "MINOR"],
       [tok |-> <<"M", "I", "N", "O", "R">>, say |-> "MINOR"],
       [tok |-> <<"A", "U", "G">>, say |-> "AUGMENTED"],
       [tok |-> <<"D", "I", "M">>, say |-> "DIMINISHED"],
       [tok |-> <<"S", "U", "S", "4">>, say |-> "SUSPENDED FOUR"],
       [tok |-> <<"S", "U", "S", "2">>, say |-> "SUSPENDED TWO"],
       [tok |-> <<"S", "U", "S">>, say |-> "SUSPENDED"],
       [tok |-> <<"A", "D", "D">>, say |-> "ADD"] >>

\* number_pronunciations, in the order of the dict
number_pronunciations ==
    << [tok |-> <<"1", "3">>, say |-> "THIRTEEN"],
       [tok |-> <<"1", "1">>, say |-> "ELEVEN"],
       [tok |-> <<"9">>, say |-> "NINE"],
       [tok |-> <<"7">>, say |-> "SEVEN"],
       [tok |-> <<"6">>, say |-> "SIX"],
       [tok |-> <<"4">>, say |-> "FOUR"],
       [tok |-> <<"2">>, say |-> "TWO"] >>

\* for ... in table: if s.startswith(tok): ...; break -- the index of the
\* first entry whose token starts s, 0 when there is none
FirstMatch(table, s) ==
    IF \E i \in 1..Len(table) : StartsWith(s, table[i].tok)
    THEN CHOOSE i \in 1..Len(table) :
            /\ StartsWith(s, table[i].tok)
            /\ \A k \in 1..(i - 1) : ~StartsWith(s, table[k].tok)
    ELSE 0

\* one lookup pass: the spoken parts so far and the text still to read
TakeToken(table, st) ==
    LET i == FirstMatch(table, st.rest)
    IN  IF i = 0 THEN st
        ELSE [parts |-> Append(st.parts, table[i].say),
              rest |-> Drop(st.rest, Len(table[i].tok))]

\* _enhance_for_singing_simple: the text returned, and the text that was
\* left unread when it returned
EnhanceForSingingSimple(chord_name) ==
    LET enhanced == Upper(chord_name)
        n == RootMatch(enhanced)
        afterRoot == IF n > 0
                     THEN [parts |-> <<RootPronunciation(SubSeq(enhanced, 1, n))>>,
                           rest |-> Drop(enhanced, n)]
                     ELSE [parts |-> <<>>, rest |-> enhanced]
        afterQuality == TakeToken(chord_quality_pronunciations, afterRoot)
        afterNumber == TakeToken(number_pronunciations, afterQuality)
    IN  [raised |-> FALSE,
         text |-> Join(afterNumber.parts),
         root |-> IF n > 0 THEN afterRoot.parts[1] ELSE "",
         afterRoot |-> afterRoot.rest,
         recognized |-> Join(afterNumber.parts),
         parts |-> afterNumber.parts,
         rest |-> afterNumber.rest]

\* the mapping list of syllabify_chord_name, in the order of the list
syllable_mapping ==
    << [tok |-> <<"M", "A", "J", "7">>, say |-> "major seven"],
       [tok |-> <<"M", "I", "N", "7">>, say |-> "minor seven"],
       [tok |-> <<"M", "A", "J">>, say |-> "major"],
       [tok |-> <<"M", "I", "N">>, say |-> "minor"],
       [tok |-> <<"M">>, say |-> "major"],
       [tok |-> <<"M", "I", "N", "O", "R">>, say |-> "minor"],
       [tok |-> <<"A", "U", "G">>, say |-> "augmented"],
       [tok |-> <<"D", "I", "M">>, say |-> "diminished"],
       [tok |-> <<"7">>, say |-> "seven"],
       [tok |-> <<"6">>, say |-> "six"],
       [tok |-> <<"9">>, say |-> "nine"],
       [tok |-> <<"1", "1">>, say |-> "eleven"],
       [tok |-> <<"1", "3">>, say |-> "thirteen"] >>

\* re.match(r'^[A-G][#B]?b?', chord) on the upper-cased label
SyllabifyRootMatch(chord) ==
    IF chord = <<>> \/ chord[1] \notin NaturalRoots THEN 0
    ELSE LET a == IF Len(chord) >= 2 /\ chord[2] \in {"#", "B"} THEN 1 ELSE 0
             b == IF Len(chord) >= 2 + a /\ chord[2 + a] = "b" THEN 1 ELSE 0
         IN  1 + a + b

\* syllabify_chord_name followed by ' '.join(syllables)
SyllabifyChordName(chord_name) ==
    LET chord == Upper(chord_name)
        n == SyllabifyRootMatch(chord)
        afterRoot == [parts |-> IF n > 0 THEN <<Text(SubSeq(chord, 1, n))>> ELSE <<>>,
                      rest |-> Drop(chord, n)]
        afterMapping == TakeToken(syllable_mapping, afterRoot)
        found == FirstMatch(syllable_mapping, afterRoot.rest) > 0
        syllables == IF ~found /\ afterRoot.rest # <<>>
                     THEN Append(afterRoot.parts, Text(Lower(afterRoot.rest)))
                     ELSE afterMapping.parts
    IN  [raised |-> FALSE,
         text |-> Join(syllables),
         root |-> IF n > 0 THEN afterRoot.parts[1] ELSE "",
         afterRoot |-> afterRoot.rest,
         recognized |-> Join(afterMapping.parts),
         rest |-> afterMapping.rest]

-----------------------------------------------------------------------------
(* SpecText: the normalizers applied to chord labels *)

LegalAccidentals == {<<>>, <<"#">>, <<"b">>}

TypedAccidentals == LegalAccidentals \cup {<<SHARP_SIGN>>, <<FLAT_SIGN>>}

SupportedQualities ==
    {<<>>, <<"m", "a", "j", "7">>, <<"m", "i", "n", "7">>, <<"m", "a", "j">>,
     <<"m", "i", "n">>, <<"a", "u", "g">>, <<"d", "i", "m">>,
     <<"s", "u", "s", "4">>, <<"s", "u", "s", "2">>, <<"s", "u", "s">>,
     <<"a", "d", "d">>}

Numerals ==
    {<<>>, <<"1", "3">>, <<"1", "1">>, <<"9">>, <<"7">>, <<"6">>, <<"4">>, <<"2">>}

\* text no table knows
Residuals == {<<"x", "y", "z">>, <<"/", "G">>, <<" ", "m", "a", "j", "o", "r">>}

\* labels with no root
Malformed ==
    {<<>>, <<"N">>, <<"N", "o", " ", "C", "h", "o", "r", "d">>, <<"H", "7">>,
     <<"#">>, <<"7">>, <<"m", "a", "j">>}

LegalLabels ==
    {<<r>> \o a \o q \o n :
        r \in NaturalRoots, a \in LegalAccidentals, q \in SupportedQualities,
        n \in Numerals}

Labels ==
    {<<r>> \o a \o q \o n :
        r \in NaturalRoots, a \in TypedAccidentals, q \in SupportedQualities,
        n \in Numerals}
    \cup {<<r>> \o a \o q \o x :
        r \in NaturalRoots, a \in LegalAccidentals, q \in SupportedQualities,
        x \in Residuals}
    \cup Malformed

Normalizers == {"simple", "syllabify"}

InitText ==
    /\ IdleSynth
    /\ IdleJobs
    /\ arg \in [fn : Normalizers, label : Labels]
    /\ ret = Pending

EnhanceSimple ==
    /\ arg.fn = "simple"
    /\ ~ret.done
    /\ ret' = Returned(EnhanceForSingingSimple(arg.label))
    /\ UNCHANGED <<arg, synthVars, jobVars>>

Syllabify ==
    /\ arg.fn = "syllabify"
    /\ ~ret.done
    /\ ret' = Returned(SyllabifyChordName(arg.label))
    /\ UNCHANGED <<arg, synthVars, jobVars>>

NextText == EnhanceSimple \/ Syllabify

SpecText == InitText /\ [][NextText]_vars

\* C12: for every legal chord label the normalizer returns, without raising,
\* a non-empty string
C12_NormalizerTotal ==
    (ret.done /\ arg.label \in LegalLabels) =>
        /\ ~ret.val.raised
        /\ ret.val.text # ""

C12_Witness ==
    /\ ret.done
    /\ arg.fn = "simple"
    /\ arg.label = <<"C", "#", "m", "a", "j", "7">>
    /\ ret.val.text = "SEE SHARP MAJOR SEVEN"

\* the accidental a legal label carries after its root
AccidentalOf(label) ==
    IF Len(label) >= 2 /\ label[2] \in {"#", "b"} THEN <<label[2]>> ELSE <<>>

\* the table's spelling of the root and accidental of a legal label
TableSpelling(label) ==
    NaturalName(label[1])
        \o (IF AccidentalOf(label) = <<"#">> THEN " SHARP"
            ELSE IF AccidentalOf(label) = <<"b">> THEN " FLAT" ELSE "")

\* C13: for each natural root and each accidental (none, sharp, flat) the
\* normalizer takes root and accidental as one unit and says the table's
\* spelling of the pair; the accidental is not left in the suffix
C13_RootWithAccidental ==
    (ret.done /\ arg.fn = "simple" /\ arg.label \in LegalLabels) =>
        /\ ret.val.root = TableSpelling(arg.label)
        /\ ret.val.afterRoot =
              Upper(Drop(arg.label, 1 + Len(AccidentalOf(arg.label))))

HasRoot(label) == label # <<>> /\ UpperChar(label[1]) \in NaturalRoots

\* C14: text that is left after the root, quality and numeral tokens is
\* appended to the output verbatim, in lower case
C14_ResidualAppended ==
    (ret.done /\ HasRoot(arg.label) /\ ret.val.rest # <<>>) =>
        /\ ~ret.val.raised
        /\ ret.val.text = ret.val.recognized \o " " \o Text(Lower(ret.val.rest))

\* C15: for an empty label or a label with no valid root the normalizer
\* returns, without raising, a non-empty marker
C15_NoChordMarker ==
    (ret.done /\ ~HasRoot(arg.label)) =>
        /\ ~ret.val.raised
        /\ ret.val.text # ""

-----------------------------------------------------------------------------
(* Chord detection.  Times are whole half-seconds.  An entry of the          *)
(* recognizer's output is [kind, label, a, b]: (a, b, label) for             *)
(* "start_end_label" (madmom's format), (label, a, b) for "label_start_end", *)
(* (label, a) for "label_time", (label,) for "single", and a bare number     *)
(* without a length for "scalar".                                            *)

MaxEntries == 2                  \* longest recognizer output
EntryTimes == {0, 1, 2}          \* in half-seconds
DEFAULT_DURATION == 1            \* the 0.5 s given to an entry without an end

EntryLabels == {<<"N">>, <<"C", ":", "m", "a", "j">>}

EntryKinds == {"start_end_label", "label_start_end", "label_time", "single", "scalar"}

Entries ==
    {[kind |-> k, label |-> l, a |-> a, b |-> b] :
        k \in {"start_end_label", "label_start_end"}, l \in EntryLabels,
        a \in EntryTimes, b \in EntryTimes}
    \cup {[kind |-> "label_time", label |-> l, a |-> a, b |-> 0] :
            l \in EntryLabels, a \in EntryTimes}
    \cup {[kind |-> "single", label |-> l, a |-> 0, b |-> 0] : l \in EntryLabels}
    \cup {[kind |-> "scalar", label |-> <<>>, a |-> 0, b |-> 0]}

RecognizerOutputs == UNION {[1..n -> Entries] : n \in 0..MaxEntries}

\* quality_map of format_chord_name
quality_map ==
    << [tok |-> <<"m", "a", "j">>,
        say |-> <<"m", "a", "j", "o", "r">>],
       [tok |-> <<"m", "i", "n">>,
        say |-> <<"m", "i", "n", "o", "r">>],
       [tok |-> <<"d", "i", "m">>,
        say |-> <<"d", "i", "m", "i", "n", "i", "s", "h", "e", "d">>],
       [tok |-> <<"a", "u", "g">>,
        say |-> <<"a", "u", "g", "m", "e", "n", "t", "e", "d">>],
       [tok |-> <<"7">>,
        say |-> <<"7", "t", "h">>],
       [tok |-> <<"m", "a", "j", "7">>,
        say |-> <<"m", "a", "j", "o", "r", " ", "7", "t", "h">>],
       [tok |-> <<"m", "i", "n", "7">>,
        say |-> <<"m", "i", "n", "o", "r", " ", "7", "t", "h">>],
       [tok |-> <<"s", "u", "s", "2">>,
        say |-> <<"s", "u", "s", "2">>],
       [tok |-> <<"s", "u", "s", "4">>,
        say |-> <<"s", "u", "s", "4">>],
       [tok |-> <<"h", "d", "i", "m", "7">>,
        say |-> <<"h", "a", "l", "f", "-", "d", "i", "m", "i", "n", "i", "s", "h", "e", "d", " ", "7", "t", "h">>],
       [tok |-> <<"m", "i", "n", "m", "a", "j", "7">>,
        say |-> <<"m", "i", "n", "o", "r", " ", "m", "a", "j", "o", "r", " ", "7", "t", "h">>],
       [tok |-> <<"d", "i", "m", "7">>,
        say |-> <<"d", "i", "m", "i", "n", "i", "s", "h", "e", "d", " ", "7", "t", "h">>] >>

\* quality_map.get(quality, quality)
PrettyQuality(quality) ==
    IF \E i \in 1..Len(quality_map) : quality_map[i].tok = quality
    THEN quality_map[CHOOSE i \in 1..Len(quality_map) : quality_map[i].tok = quality].say
    ELSE quality

\* format_chord_name, character by character
FormatChordChars(label) ==
    IF label = <<"N">> THEN <<"N", "o", " ", "C", "h", "o", "r", "d">>
    ELSE IF \E i \in 1..Len(label) : label[i] = ":"
    THEN LET i == CHOOSE i \in 1..Len(label) :
                    label[i] = ":" /\ \A k \in 1..(i - 1) : label[k] # ":"
         IN  SubSeq(label, 1, i - 1) \o <<" ">> \o PrettyQuality(Drop(label, i))
    ELSE label

\* format_chord_name
FormatChordName(label) == Text(FormatChordChars(label))

Chord(name, start, end) == [name |-> name, start |-> start, end |-> end]

\* the progression returned when nothing usable was recognized
FallbackProgression ==
    << Chord("C major", 0, 4), Chord("G major", 4, 8),
       Chord("A minor", 8, 12), Chord("F major", 12, 16) >>

\* end = time + 0.5
DefaultEnd(time) == time + DEFAULT_DURATION

\* str(chord_data) of a one-item tuple
TupleRepr(label) == <<"(", "'">> \o label \o <<"'", ",", ")">>

\* the body of the formatting loop for one entry: the segments it appends
\* (none when the entry is skipped by a continue)
FormatEntry(entry) ==
    CASE entry.kind = "start_end_label" ->
            <<Chord(FormatChordName(entry.label), entry.a, entry.b)>>
      [] entry.kind = "label_time" ->
            <<Chord(FormatChordName(entry.label), entry.a, DefaultEnd(entry.a))>>
      [] entry.kind = "single" ->
            <<Chord(FormatChordName(TupleRepr(entry.label)), 0, DEFAULT_DURATION)>>
      [] entry.kind = "label_start_end" -> <<>>
      [] entry.kind = "scalar" -> <<>>

RECURSIVE FormatAll(_)
FormatAll(chords) ==
    IF chords = <<>> THEN <<>>
    ELSE FormatEntry(Head(chords)) \o FormatAll(Tail(chords))

\* ChordDetector.detect_chords of backend/audio_processing
DetectChords(raises, chords) ==
    IF raises THEN FallbackProgression
    ELSE LET formatted == FormatAll(chords)
         IN  IF formatted = <<>> THEN FallbackProgression ELSE formatted

\* ChordDetector.detect_chords of ai-music-coach: every entry is unpacked as
\* (chord_label, start, end) and an exception anywhere gives []
CoachDetectChords(raises, chords) ==
    IF raises \/ \E i \in 1..Len(chords) : chords[i].kind # "label_start_end"
    THEN <<>>
    ELSE [i \in 1..Len(chords) |->
            Chord(FormatChordName(chords[i].label), chords[i].a, chords[i].b)]

Detectors == {"backend", "coach"}

InitDetect ==
    /\ IdleSynth
    /\ IdleJobs
    /\ arg \in [fn : Detectors, raises : BOOLEAN, chords : RecognizerOutputs]
    /\ arg.raises => arg.chords = <<>>
    /\ ret = Pending

DetectBackend ==
    /\ arg.fn = "backend"
    /\ ~ret.done
    /\ ret' = Returned(DetectChords(arg.raises, arg.chords))
    /\ UNCHANGED <<arg, synthVars, jobVars>>

DetectCoach ==
    /\ arg.fn = "coach"
    /\ ~ret.done
    /\ ret' = Returned(CoachDetectChords(arg.raises, arg.chords))
    /\ UNCHANGED <<arg, synthVars, jobVars>>

NextDetect == DetectBackend \/ DetectCoach

SpecDetect == InitDetect /\ [][NextDetect]_vars

\* C16: detect_chords never returns an empty progression; when the
\* recognizer raises, returns no entries or returns only entries that cannot
\* be parsed, it returns the 4-chord fallback progression
C16_NeverEmpty ==
    ret.done =>
        /\ ret.val # <<>>
        /\ (arg.raises \/ \A i \in 1..Len(arg.chords) : arg.chords[i].kind = "scalar")
              => ret.val = FallbackProgression

\* what the returned list has to satisfy
ProperTimeline(tl) ==
    /\ \A i \in 1..Len(tl) : tl[i].start >= 0 /\ tl[i].end > tl[i].start
    /\ \A i \in 1..(Len(tl) - 1) : tl[i].start <= tl[i + 1].start

\* C17 as stated: for every output of the recognizer, each returned segment
\* has start >= 0 and end > start, and starts never decrease
C17_ProperTimeline ==
    ret.done => ProperTimeline(ret.val)

\* a recognizer output whose entries share one format, are in non-decreasing
\* time order, have times >= 0 and, when they carry an end, end > start
OrderedOutput(chords) ==
    /\ \A i, k \in 1..Len(chords) : chords[i].kind = chords[k].kind
    /\ \A i \in 1..(Len(chords) - 1) : chords[i].a <= chords[i + 1].a
    /\ \A i \in 1..Len(chords) :
          /\ chords[i].a >= 0
          /\ chords[i].kind \in {"start_end_label", "label_start_end"}
                => chords[i].b > chords[i].a

\* the returned list is a proper timeline whenever the recognizer's output
\* is an ordered one
ProperTimelineOfOrderedOutput ==
    (ret.done /\ OrderedOutput(arg.chords)) => ProperTimeline(ret.val)

\* two entries in madmom's format come back as two segments with the same times
OrderedOutputReturned ==
    /\ ret.done
    /\ arg.fn = "backend"
    /\ Len(arg.chords) = 2
    /\ arg.chords[1].kind = "start_end_label"
    /\ OrderedOutput(arg.chords)
    /\ Len(ret.val) = 2
    /\ ret.val[1].name = "C major"
    /\ ret.val[2].start = arg.chords[2].a
    /\ ret.val[2].end = arg.chords[2].b

-----------------------------------------------------------------------------
(* Separation fallback *)

\* the file given to extract_melody (main.py:79)
MelodySource(loc) ==
    IF loc.vocals_path # "None" THEN loc.vocals_path ELSE loc.processed_audio_path

\* C18: when separation fails separate_vocals returns (input path, None),
\* the original mix is the instrumental of chord detection and of the mix
\* and the source of the melody, and a job in which nothing else fails
\* reaches completed
C18_SeparationFallback ==
    \A j \in Jobs :
        /\ "separate" \in faults[j] =>
              /\ ps_locals[j].instrumental_path = ps_locals[j].processed_audio_path
              /\ ps_locals[j].vocals_path = "None"
              /\ MelodySource(ps_locals[j]) = ps_locals[j].processed_audio_path
        /\ (ProcessSongEnded(j) /\ faults[j] = {"separate"}) =>
              /\ ps_exit[j].kind = "returned"
              /\ processing_status[j].status = "completed"

\* no job whose separation fell back is ever completed
FallbackNeverCompleted ==
    \A j \in Jobs :
        "separate" \in faults[j] => processing_status[j].status # "completed"

\* the fallback was taken and the paths of the frame are the original mix
FallbackTaken ==
    \A j \in Jobs :
        "separate" \in faults[j] =>
            /\ ps_locals[j].instrumental_path = ps_locals[j].processed_audio_path
            /\ MelodySource(ps_locals[j]) = ps_locals[j].processed_audio_path

-----------------------------------------------------------------------------
(* Export failures *)

\* C19: when the export cannot write the output file the entry point does
\* not return normally: the failure reaches the caller as an exception, for
\* every entry point that exports
C19_ExportFailureReported ==
    (sy_pc \in {"returned", "raised"} /\ ~out_file.exists) =>
        /\ sy_pc = "raised"
        /\ sy_err = "export"

\* the entry points other than the melody-following one raise when the
\* export fails
ExportFailureRaisesUnlessSung ==
    (path # "sung" /\ sy_pc \in {"returned", "raised"} /\ ~out_file.exists) =>
        /\ sy_pc = "raised"
        /\ sy_err = "export"

-----------------------------------------------------------------------------
(* Concurrent calls of VocalSynthesizer._synthesize_single_chord.  Each job  *)
(* speaks one chord name; the calls run in servers started in the same       *)
(* working directory, so the relative path "temp_chord.wav" names one file.  *)

ChordTexts == {"C major", "G major"}

\* AudioSegment.silent(duration=1000) of the except branch
SilenceFallback == [text |-> "silence", writer |-> 0]

InitTemp ==
    /\ IdleFn
    /\ IdleJobs
    /\ path = "none" /\ chord_timeline = <<>> /\ duration = 0 /\ bed = -1
    /\ sy_pc = "idle" /\ sy_err = "none" /\ seg_i = 1
    /\ instrumental_track = <<>> /\ vocals_track = <<>> /\ ref_track = <<>>
    /\ injected = {} /\ out_file = NoFile
    /\ call_pc \in [Jobs -> {"idle", "tts"}]
    /\ call_text \in [Jobs -> ChordTexts]
    /\ temp_chord_wav = NoTempFile
    /\ chord_audio = [j \in Jobs |-> NoAudio]
    /\ call_ret = [j \in Jobs |-> NoAudio]
    /\ writers = {}

TempUnchanged ==
    UNCHANGED <<fnVars, jobVars, path, chord_timeline, duration, bed, sy_pc, sy_err,
                seg_i, instrumental_track, vocals_track, ref_track, injected, out_file,
                call_text>>

\* self.tts.tts_to_file(text=chord_name, file_path="temp_chord.wav")
TtsToFile ==
    \E j \in Jobs :
        /\ call_pc[j] = "tts"
        /\ temp_chord_wav' = [exists |-> TRUE, text |-> call_text[j], writer |-> j]
        /\ writers' = writers \cup {j}
        /\ call_pc' = [call_pc EXCEPT ![j] = "load"]
        /\ UNCHANGED <<chord_audio, call_ret>>
        /\ TempUnchanged

\* AudioSegment.from_wav(audio_path); a missing file raises, and the except
\* branch returns one second of silence
FromWav ==
    \E j \in Jobs :
        /\ call_pc[j] = "load"
        /\ IF temp_chord_wav.exists
           THEN /\ chord_audio' = [chord_audio EXCEPT ![j] =
                                      [text |-> temp_chord_wav.text,
                                       writer |-> temp_chord_wav.writer]]
                /\ call_pc' = [call_pc EXCEPT ![j] = "exists"]
                /\ UNCHANGED call_ret
           ELSE /\ call_ret' = [call_ret EXCEPT ![j] = SilenceFallback]
                /\ call_pc' = [call_pc EXCEPT ![j] = "returned"]
                /\ UNCHANGED chord_audio
        /\ UNCHANGED <<temp_chord_wav, writers>>
        /\ TempUnchanged

\* if os.path.exists(audio_path): ... return chord_audio
PathExists ==
    \E j \in Jobs :
        /\ call_pc[j] = "exists"
        /\ IF temp_chord_wav.exists
           THEN /\ call_pc' = [call_pc EXCEPT ![j] = "unlink"]
                /\ UNCHANGED call_ret
           ELSE /\ call_ret' = [call_ret EXCEPT ![j] = chord_audio[j]]
                /\ call_pc' = [call_pc EXCEPT ![j] = "returned"]
        /\ UNCHANGED <<temp_chord_wav, chord_audio, writers>>
        /\ TempUnchanged

\* os.unlink(audio_path); return chord_audio.  A file that is gone by now
\* raises, and the except branch returns one second of silence
Unlink ==
    \E j \in Jobs :
        /\ call_pc[j] = "unlink"
        /\ IF temp_chord_wav.exists
           THEN /\ temp_chord_wav' = NoTempFile
                /\ call_ret' = [call_ret EXCEPT ![j] = chord_audio[j]]
           ELSE /\ call_ret' = [call_ret EXCEPT ![j] = SilenceFallback]
                /\ UNCHANGED temp_chord_wav
        /\ call_pc' = [call_pc EXCEPT ![j] = "returned"]
        /\ UNCHANGED <<chord_audio, writers>>
        /\ TempUnchanged

NextTemp == TtsToFile \/ FromWav \/ PathExists \/ Unlink

SpecTemp == InitTemp /\ [][NextTemp]_vars

LoneCallReturnsOwn ==
    \A j \in Jobs :
        (call_pc[j] = "returned" /\ \A k \in Jobs \ {j} : call_pc[k] = "idle") =>
            /\ call_ret[j] = [text |-> call_text[j], writer |-> j]
            /\ ~temp_chord_wav.exists

-----------------------------------------------------------------------------
(* preprocess_audio *)

supported_formats ==
    { <<".", "m", "p", "3">>, <<".", "w", "a", "v">>, <<".", "f", "l", "a", "c">>,
      <<".", "m", "4", "a">>, <<".", "o", "g", "g">>, <<".", "a", "a", "c">>,
      <<".", "w", "m", "a">> }

\* os.path.splitext(audio_path)[1] of the paths tried
Extensions ==
    { <<".", "w", "a", "v">>, <<".", "M", "P", "3">>, <<".", "x", "y", "z">>, <<>> }

TARGET_FRAME_RATE == 44100

FrameRates == {22050, TARGET_FRAME_RATE}
Channels == {1, 2}
AudioLengths == {0, 2500}        \* len(audio), in ms

\* an except block that leaves the temporary file where it is
ExceptNoCleanup(temp_created) == temp_created

\* whether the temporary file exists after the except block (lines 64-67)
ExceptCleanup(temp_created) == FALSE

Raise(kind, message, temp_exists) ==
    [raised |-> kind, message |-> message, temp_exists |-> temp_exists,
     channels |-> 0, frame_rate |-> 0, duration_ms |-> 0]

\* preprocess_audio; a is the file at audio_path and what the library calls
\* do with it
PreprocessAudio(a) ==
    LET file_extension == Lower(a.ext)
    IN  IF ~a.exists
        THEN Raise("FileNotFoundError", <<"Audio file not found: ">>, FALSE)
        ELSE IF file_extension \notin supported_formats
        THEN Raise("ValueError",
                   <<"Unsupported file format: ", Text(file_extension)>>, FALSE)
        ELSE IF ~a.load_ok
        THEN Raise("Exception", <<"Error preprocessing audio file: ">>,
                   ExceptCleanup(FALSE))
        ELSE IF ~a.temp_ok
        THEN Raise("Exception", <<"Error preprocessing audio file: ">>,
                   ExceptCleanup(FALSE))
        ELSE IF ~a.export_ok
        THEN Raise("Exception", <<"Error preprocessing audio file: ">>,
                   ExceptCleanup(TRUE))
        ELSE [raised |-> "none", message |-> <<>>, temp_exists |-> TRUE,
              channels |-> 1, frame_rate |-> TARGET_FRAME_RATE,
              duration_ms |-> a.len_ms]

InitPre ==
    /\ IdleSynth
    /\ IdleJobs
    /\ arg \in [fn : {"preprocess_audio"}, exists : BOOLEAN, ext : Extensions,
                load_ok : BOOLEAN, temp_ok : BOOLEAN, export_ok : BOOLEAN,
                channels : Channels, frame_rate : FrameRates, len_ms : AudioLengths]
    /\ ret = Pending

CallPreprocessAudio ==
    /\ arg.fn = "preprocess_audio"
    /\ ~ret.done
    /\ ret' = Returned(PreprocessAudio(arg))
    /\ UNCHANGED <<arg, synthVars, jobVars>>

NextPre == CallPreprocessAudio

SpecPre == InitPre /\ [][NextPre]_vars

\* C21: a missing path raises FileNotFoundError whatever its extension, an
\* existing file with an unsupported extension raises ValueError with
\* 'Unsupported file format', and whenever preprocess_audio raises no
\* temporary file of its own is left
C21_PreprocessErrors ==
    ret.done =>
        /\ ~arg.exists => ret.val.raised = "FileNotFoundError"
        /\ (arg.exists /\ Lower(arg.ext) \notin supported_formats) =>
              /\ ret.val.raised = "ValueError"
              /\ Head(ret.val.message) = "Unsupported file format: "
        /\ ret.val.raised # "none" => ~ret.val.temp_exists
        /\ ret.val.raised = "none" <=>
              /\ arg.exists /\ Lower(arg.ext) \in supported_formats
              /\ arg.load_ok /\ arg.temp_ok /\ arg.export_ok

\* the export failed after the temporary file was created, and the file is gone
C21_Witness ==
    /\ ret.done
    /\ arg.exists /\ arg.load_ok /\ arg.temp_ok /\ ~arg.export_ok
    /\ arg.ext = <<".", "M", "P", "3">>
    /\ ret.val.raised = "Exception"
    /\ ~ret.val.temp_exists

-----------------------------------------------------------------------------
(* Rejected uploads *)

Rejected(j) == "content_type" \in faults[j]

\* C22: a request whose content type is not allowed is answered with HTTP
\* 400 and no job id, and the step that answers it leaves the status sink,
\* the results map and the files as they were; the job never gets a status
C22_RejectedBeforeJobStarts ==
    [][\A j \in Jobs :
          (Rejected(j)' /\ ~Rejected(j)) =>
              /\ response'[j] = [code |-> 400, job_id |-> FALSE]
              /\ job_pc'[j] = "done"
              /\ processing_status[j] = NoStatus
              /\ UNCHANGED <<processing_status, processing_results, files, hist>>]_vars

\* a rejected request stays without status, result and files
RejectedStaysEmpty ==
    \A j \in Jobs :
        Rejected(j) =>
            /\ response[j].code = 400
            /\ processing_status[j] = NoStatus
            /\ processing_results[j] = "none"
            /\ files[j] = {}

\* a request was rejected after an earlier job had run to its end
C22_Witness ==
    /\ Rejected(2)
    /\ response[2].code = 400
    /\ processing_status[2] = NoStatus
    /\ processing_status[1].status = "error"
    /\ job_pc[1] = "done"

-----------------------------------------------------------------------------
(* One utterance of the speech engine.  The input says what the object and   *)
(* the library calls do: tts_set is whether self.tts holds an engine (it is  *)
(* None after cleanup()), tts_ok and edge_ok whether the engine writes its   *)
(* file, load_ok whether AudioSegment.from_wav can read it.                  *)

SpokenTexts == {"", "C major"}

Utterance(raised, len_ms, temps_left, temp_chord_left) ==
    [raised |-> raised, len_ms |-> len_ms, temps_left |-> temps_left,
     temp_chord_left |-> temp_chord_left]

\* the engine refuses an empty text
CoquiWrites(a) == a.tts_set /\ a.tts_ok /\ a.text # ""

\* VocalSynthesizer._synthesize_single_chord (vocal_synthesis.py:83-115)
SynthesizeSingleChord(a) ==
    IF ~a.tts_set THEN Utterance("RuntimeError", 0, 0, FALSE)
    ELSE IF ~CoquiWrites(a) THEN Utterance("none", FALLBACK_SILENCE_MS, 0, FALSE)
    ELSE IF ~a.load_ok THEN Utterance("none", FALLBACK_SILENCE_MS, 0, TRUE)
    ELSE Utterance("none", a.utt, 0, FALSE)

\* AdvancedVocalSynthesizer._synthesize_with_coqui_tts; temps is the number
\* of temporary files already left behind
SynthesizeWithCoquiTts(a, temps) ==
    IF ~CoquiWrites(a) \/ ~a.load_ok
    THEN Utterance("none", FALLBACK_SILENCE_MS, temps + 1, FALSE)
    ELSE Utterance("none", a.utt, temps, FALSE)

\* AdvancedVocalSynthesizer._synthesize_with_edge_tts
SynthesizeWithEdgeTts(a) ==
    IF ~a.edge_ok \/ a.text = "" \/ ~a.load_ok
    THEN SynthesizeWithCoquiTts(a, 1)
    ELSE Utterance("none", a.utt, 0, FALSE)

SpeakFns == {"single_chord", "coqui_tts", "edge_tts"}

InitSpeak ==
    /\ IdleSynth
    /\ IdleJobs
    /\ arg \in [fn : SpeakFns, text : SpokenTexts, tts_set : BOOLEAN, tts_ok : BOOLEAN,
                edge_ok : BOOLEAN, load_ok : BOOLEAN, utt : UttLens]
    /\ ret = Pending

CallSingleChord ==
    /\ arg.fn = "single_chord"
    /\ ~ret.done
    /\ ret' = Returned(SynthesizeSingleChord(arg))
    /\ UNCHANGED <<arg, synthVars, jobVars>>

CallCoquiTts ==
    /\ arg.fn = "coqui_tts"
    /\ ~ret.done
    /\ ret' = Returned(SynthesizeWithCoquiTts(arg, 0))
    /\ UNCHANGED <<arg, synthVars, jobVars>>

CallEdgeTts ==
    /\ arg.fn = "edge_tts"
    /\ ~ret.done
    /\ ret' = Returned(SynthesizeWithEdgeTts(arg))
    /\ UNCHANGED <<arg, synthVars, jobVars>>

NextSpeak == CallSingleChord \/ CallCoquiTts \/ CallEdgeTts

SpecSpeak == InitSpeak /\ [][NextSpeak]_vars

\* C23: the call never raises, for any text; when the engine fails it
\* returns 1000 ms of silence, and the audio returned is never empty
C23_NeverRaises ==
    (ret.done /\ arg.fn \in {"single_chord", "coqui_tts"}) =>
        /\ ret.val.raised = "none"
        /\ ret.val.len_ms > 0
        /\ ~CoquiWrites(arg) => ret.val.len_ms = FALLBACK_SILENCE_MS

\* with an engine in self.tts the call never raises
NeverRaisesWithEngine ==
    (ret.done /\ arg.tts_set /\ arg.fn \in {"single_chord", "coqui_tts"}) =>
        /\ ret.val.raised = "none"
        /\ ret.val.len_ms > 0
        /\ ~CoquiWrites(arg) => ret.val.len_ms = FALLBACK_SILENCE_MS

-----------------------------------------------------------------------------
(* Temporary artifacts *)

\* what may exist for a job once process_song has ended: the upload, which
\* the endpoint removes, and the requested output
Kept == {"input", "output"}

\* C24: when process_song has returned or raised, none of the temporary
\* artifacts the pipeline created for the job still exists
C24_NoTemporaryLeft ==
    \A j \in Jobs :
        (ProcessSongEnded(j) \/ job_pc[j] = "done") => files[j] \subseteq Kept

\* the files process_song unlinks by name are gone when it has ended
NamedTemporariesRemoved ==
    \A j \in Jobs :
        ProcessSongEnded(j) => files[j] \cap {"processed", "accompaniment", "vocals"} = {}

-----------------------------------------------------------------------------
(* Lengths of the effects chains.  A buffer is its number of samples.        *)

MaxSamples == 20                 \* longest buffer tried
SampleRates == {10, 100, 200}    \* sr, in Hz

\* len(np.convolve(a, v, mode='same')) for len(a) = n, len(v) = m
ConvolveSameLength(n, m) == Max(n, m)

FxResult(raised, len) == [raised |-> raised, len |-> len]

\* _apply_subtle_singing_effects: the vibrato and the compression keep the
\* length; samples * 0.8 + reverb_signal * 0.2 needs both of one length
SubtleEffectsLength(n, sr) ==
    LET reverb_length == (5 * sr) \div 100
        reverb_signal == ConvolveSameLength(n, reverb_length)
    IN  IF n < 2 THEN FxResult(FALSE, n)
        ELSE IF reverb_length > 0 /\ reverb_signal # n THEN FxResult(TRUE, 0)
        ELSE FxResult(FALSE, n)

\* _apply_singing_effects: samples becomes the convolution, and the breath
\* noise is drawn at the length samples has by then
SingingEffectsLength(n, sr) ==
    LET reverb_length == (8 * sr) \div 100
    IN  IF n < 2 THEN FxResult(FALSE, n)
        ELSE IF reverb_length > 0 THEN FxResult(FALSE, ConvolveSameLength(n, reverb_length))
        ELSE FxResult(FALSE, n)

EffectChains == {"subtle", "singing"}

InitFx ==
    /\ IdleSynth
    /\ IdleJobs
    /\ arg \in [fn : EffectChains, n : 0..MaxSamples, sr : SampleRates]
    /\ ret = Pending

ApplySubtle ==
    /\ arg.fn = "subtle"
    /\ ~ret.done
    /\ ret' = Returned(SubtleEffectsLength(arg.n, arg.sr))
    /\ UNCHANGED <<arg, synthVars, jobVars>>

ApplySinging ==
    /\ arg.fn = "singing"
    /\ ~ret.done
    /\ ret' = Returned(SingingEffectsLength(arg.n, arg.sr))
    /\ UNCHANGED <<arg, synthVars, jobVars>>

NextFx == ApplySubtle \/ ApplySinging

SpecFx == InitFx /\ [][NextFx]_vars

\* C25: each effects chain returns a buffer of exactly n samples for every
\* input length n and every sample rate
C25_LengthPreserving ==
    ret.done => (~ret.val.raised /\ ret.val.len = arg.n)

\* the chains keep the length of every buffer that is not shorter than the
\* impulse response (50 ms and 80 ms of samples)
LengthKeptFromImpulseLength ==
    (ret.done /\ (arg.n < 2 \/ 100 * arg.n >= 8 * arg.sr)) =>
        (~ret.val.raised /\ ret.val.len = arg.n)

-----------------------------------------------------------------------------
(* The resampling pitch shifters.  A ratio is <<numerator, denominator>>.    *)

\* pitch factors the callers' clamps let through (0.5 .. 4.0)
ShiftRatios == {<<5, 10>>, <<8, 10>>, <<10, 10>>, <<14, 10>>, <<20, 10>>, <<40, 10>>}

\* a buffer of n samples, each one different
Ramp(n) == [k \in 1..n |-> k]

\* int(len(samples) / pitch_factor)
NewLength(samples, pitch_factor) ==
    (Len(samples) * pitch_factor[2]) \div pitch_factor[1]

\* the end of AdvancedVocalSynthesizer._apply_pitch_mapping
\* (advanced_vocal_synthesis.py:296-303), after the guard of line 267
ResampleMapping(samples, pitch_factor) ==
    LET new_length == NewLength(samples, pitch_factor)
    IN  IF Len(samples) < 2 THEN samples
        ELSE IF new_length > 1 THEN Resample(samples, new_length) ELSE samples

\* the resampling of sing_chord_name in ai-music-coach (new_length > 0)
ResampleCoach(samples, resample_factor) ==
    LET new_length == NewLength(samples, resample_factor)
    IN  IF new_length > 0 THEN Resample(samples, new_length) ELSE samples

Shifters == {"mapping", "spectral", "coach"}

InitShift ==
    /\ IdleSynth
    /\ IdleJobs
    /\ arg \in [fn : Shifters, n : 0..MaxSamples, ratio : ShiftRatios]
    /\ ret = Pending

ShiftMapping ==
    /\ arg.fn = "mapping"
    /\ ~ret.done
    /\ ret' = Returned(ResampleMapping(Ramp(arg.n), arg.ratio))
    /\ UNCHANGED <<arg, synthVars, jobVars>>

\* _spectral_pitch_shift when the phase vocoder has failed
ShiftSpectral ==
    /\ arg.fn = "spectral"
    /\ ~ret.done
    /\ ret' = Returned(SpectralPitchShift(Ramp(arg.n), arg.ratio, FALSE))
    /\ UNCHANGED <<arg, synthVars, jobVars>>

ShiftCoach ==
    /\ arg.fn = "coach"
    /\ ~ret.done
    /\ ret' = Returned(ResampleCoach(Ramp(arg.n), arg.ratio))
    /\ UNCHANGED <<arg, synthVars, jobVars>>

NextShift == ShiftMapping \/ ShiftSpectral \/ ShiftCoach

SpecShift == InitShift /\ [][NextShift]_vars

\* round(a / b) for a >= 0, b > 0, halves to the even neighbour
RoundDiv(a, b) ==
    LET q == a \div b
        r == a % b
    IN  IF 2 * r < b THEN q
        ELSE IF 2 * r > b THEN q + 1
        ELSE IF q % 2 = 0 THEN q ELSE q + 1

\* C26: the shifter returns exactly round(n / r) samples, or its input
\* unchanged when that length would be below 2 samples
C26_ResampledLength ==
    ret.done =>
        LET target == RoundDiv(arg.n * arg.ratio[2], arg.ratio[1])
        IN  IF target < 2 THEN ret.val = Ramp(arg.n)
            ELSE Len(ret.val) = target

\* what the shifters of the backend do: int(n / r) samples, or the input
\* unchanged when that, or the input, is below 2 samples
TruncatedLength ==
    (ret.done /\ arg.fn # "coach") =>
        LET target == (arg.n * arg.ratio[2]) \div arg.ratio[1]
        IN  IF target < 2 \/ arg.n < 2 THEN ret.val = Ramp(arg.n)
            ELSE Len(ret.val) = target

-----------------------------------------------------------------------------
(* The quality token taken from a suffix *)

TokensOf(table) == {table[i].tok : i \in 1..Len(table)}

\* what may follow a token in a suffix
Continuations == {<<>>, <<"7">>, <<"X">>, <<"O", "R">>}

\* upper-cased label suffixes: nothing or a token of either list, and a
\* continuation
Suffixes ==
    {q \o x : q \in TokensOf(chord_quality_pronunciations)
                     \cup TokensOf(syllable_mapping) \cup {<<>>},
              x \in Continuations}

QualityTable(fn) ==
    IF fn = "simple" THEN chord_quality_pronunciations ELSE syllable_mapping

\* the token the lookup loop removes from the head of s, <<>> when no token
\* of the list starts s
ConsumedToken(table, s) ==
    LET i == FirstMatch(table, s)
    IN  IF i = 0 THEN <<>> ELSE table[i].tok

InitQuality ==
    /\ IdleSynth
    /\ IdleJobs
    /\ arg \in [fn : Normalizers, suffix : Suffixes]
    /\ ret = Pending

\* the quality loop of _enhance_for_singing_simple and enhance_for_singing
TakeQualitySimple ==
    /\ arg.fn = "simple"
    /\ ~ret.done
    /\ ret' = Returned(ConsumedToken(chord_quality_pronunciations, arg.suffix))
    /\ UNCHANGED <<arg, synthVars, jobVars>>

\* the mapping loop of syllabify_chord_name
TakeQualitySyllabify ==
    /\ arg.fn = "syllabify"
    /\ ~ret.done
    /\ ret' = Returned(ConsumedToken(syllable_mapping, arg.suffix))
    /\ UNCHANGED <<arg, synthVars, jobVars>>

NextQuality == TakeQualitySimple \/ TakeQualitySyllabify

SpecQuality == InitQuality /\ [][NextQuality]_vars

\* C27: the token consumed is the longest token of the list that is a
\* prefix of the suffix
C27_LongestTokenConsumed ==
    ret.done =>
        \A tok \in TokensOf(QualityTable(arg.fn)) :
            StartsWith(arg.suffix, tok) => Len(ret.val) >= Len(tok)

\* the pairs the claim names are in the right order: a suffix that starts
\* with MAJ7, MIN7, SUS4 or SUS2 loses that token when the list has it
NamedPairsOrdered ==
    ret.done =>
        \A tok \in { <<"M", "A", "J", "7">>, <<"M", "I", "N", "7">>,
                     <<"S", "U", "S", "4">>, <<"S", "U", "S", "2">> } :
            (tok \in TokensOf(QualityTable(arg.fn)) /\ StartsWith(arg.suffix, tok))
                => ret.val = tok

-----------------------------------------------------------------------------
(* From the recognizer's label to the text that is spoken *)

RecognizerRoots == {<<"C">>, <<"A">>, <<"G">>, <<"F", "#">>}

\* the labels 'root:quality' with a quality of quality_map
MappedLabels ==
    {r \o <<":">> \o quality_map[i].tok :
        r \in RecognizerRoots, i \in 1..Len(quality_map)}

\* texts of _generate_filler_words
Fillers == {"", "To", "Now go to"}

\* _enhance_for_singing_with_filler: the text for the engine, and the parts
\* of the chord's pronunciation that are in it
EnhanceForSingingWithFiller(chord_name, filler_text) ==
    LET enhanced_chord == EnhanceForSingingSimple(chord_name)
    IN  [text |-> IF filler_text # "" THEN filler_text \o " " \o enhanced_chord.text
                  ELSE enhanced_chord.text,
         parts |-> enhanced_chord.parts]

InitSpoken ==
    /\ IdleSynth
    /\ IdleJobs
    /\ arg \in [fn : {"segment_text"}, label : MappedLabels, filler : Fillers]
    /\ ret = Pending

\* detect_chords formats the label, synthesize_stable_chord_vocals makes the
\* text of the segment from it
SegmentText ==
    /\ arg.fn = "segment_text"
    /\ ~ret.done
    /\ ret' = Returned(EnhanceForSingingWithFiller(FormatChordChars(arg.label), arg.filler))
    /\ UNCHANGED <<arg, synthVars, jobVars>>

NextSpoken == SegmentText

SpecSpoken == InitSpoken /\ [][NextSpoken]_vars

RootOf(label) ==
    SubSeq(label, 1, (CHOOSE i \in 1..Len(label) : label[i] = ":") - 1)

\* C28: for a label 'root:quality' with a mapped quality, the text sent to
\* the engine has the phonetic spelling of the root and, after it, a spoken
\* expansion of the quality
C28_RootAndQualitySpoken ==
    ret.done =>
        /\ Len(ret.val.parts) >= 2
        /\ ret.val.parts[1] = RootPronunciation(RootOf(arg.label))

\* what is sent for such a label: the spelling of the root and nothing else
\* of the chord
OnlyRootSpoken ==
    ret.done => ret.val.parts = <<RootPronunciation(RootOf(arg.label))>>

-----------------------------------------------------------------------------
(* Terminal statuses and responses *)

TerminalStatuses == {"completed", "error"}

\* get_processing_status: the entry as the read leaves it in the sink (a
\* completed entry gets its download link)
GetProcessingStatus(status) ==
    IF status.status = "completed"
    THEN [f \in DOMAIN status \cup {"download_url"} |->
            IF f = "download_url" THEN "/download/" ELSE status[f]]
    ELSE status

=============================================================================
